---- MODULE Spec2Model ----
(***************************************************************************)
(* A model of seekpro.py, the Seek Thermal Pro camera wrapper.             *)
(*                                                                         *)
(* Spec      the session: SeekPro.__init__ (dead-pixel discovery) and      *)
(*           get_image(), with grab() returning (status, frame | None) or  *)
(*           raising.                                                      *)
(* SpecInit  init(): the control writes of the initialisation sequence,    *)
(*           each through send_msg(), which may fail.                      *)
(* SpecGrab  grab(): the start-transfer write and the bulk reads that      *)
(*           accumulate one frame's bytes (byte counts are the source's).  *)
(* SpecPix   correct_dead_pix(): the loop over the dead-pixel list, on      *)
(*           images and lists drawn from bounded sets.                     *)
(*                                                                         *)
(* Pixel grids are modelled on an ImgH x ImgW image inside a raw frame     *)
(* that keeps the source's border widths (4 rows above, 1 column left,     *)
(* RAW_HEIGHT - HEIGHT rows and RAW_WIDTH - WIDTH columns in total).       *)
(* Samples are numpy uint16: arithmetic wraps modulo 2^16.                 *)
(***************************************************************************)
EXTENDS Integers, Sequences, FiniteSets, TLC

\* ---------------------------------------------------------------- constants

WIDTH == 320
HEIGHT == 240
RAW_WIDTH == 342
RAW_HEIGHT == 260

\* crop(): raw_img[4:4+HEIGHT, 1:1+WIDTH]
CROP_TOP == 4
CROP_LEFT == 1

\* get_image(): self.crop(img) - 1600
CALIB_OFFSET == 1600
\* get_dead_pix_list(): np.where(img < 100)
DEAD_THRESHOLD == 100
\* dtype=np.uint16
UINT16 == 65536

\* status bytes the code tests
STATUS_CALIB == 1
STATUS_NORMAL == 3
STATUS_DEADPIX == 4

\* __init__: for i in range(5) ... if i == 4
CTOR_RANGE == 5
CTOR_GIVEUP == 4

\* request codes
START_GET_IMAGE_TRANSFER == 83
SET_OPERATION_MODE == 60
SET_IMAGE_PROCESSING_MODE == 62
SET_FIRMWARE_INFO_FEATURES == 85
SET_FACTORY_SETTINGS_FEATURES == 86

\* init(): for i in range(10): for j in range(0,256,32)
INIT_I_RANGE == 10
INIT_J_STOP == 256
INIT_J_STEP == 32

\* grab(): self.dev.read(0x81, 13680, 1000)
CHUNK == 13680
\* grab(): while remaining > 512
TOLERANCE == 512
\* grab(): status = ret[4]
STATUS_INDEX == 4

\* ------------------------------------------------------------------- bounds

\* calls of init() followed in SpecInit
MaxInitCalls == 2

\* bulk reads of one grab() that return fewer bytes than the device has
\* ready (SpecGrab)
MaxShortReads == 2

\* longest dead-pixel list drawn in SpecPix
MaxDead == 2

\* the modelled image is ImgH x ImgW (the source's is HEIGHT x WIDTH)
ImgH == 3
ImgW == 3

\* Python's None: the empty grid
None == << >>

\* self.dead_pixels before __init__ assigns it (no such attribute yet): a
\* marker that no coordinate list equals
Unassigned == << <<-1, -1>> >>

Rows == 0 .. (ImgH - 1)
Cols == 0 .. (ImgW - 1)
Pix == Rows \X Cols
RawRows == 0 .. (ImgH + (RAW_HEIGHT - HEIGHT) - 1)
RawCols == 0 .. (ImgW + (RAW_WIDTH - WIDTH) - 1)

Min(a, b) == IF a < b THEN a ELSE b
Max(a, b) == IF a > b THEN a ELSE b

\* ------------------------------------------------------------ pure functions

\* a crop that starts at the first row and column of the raw image
cropFromOrigin(raw_img) == [p \in Pix |-> raw_img[p]]

\* raw_img[4:4+HEIGHT, 1:1+WIDTH]
crop(raw_img) ==
  [p \in Pix |-> raw_img[<<p[1] + CROP_TOP, p[2] + CROP_LEFT>>]]

\* a subtraction carried out in signed integers
SubScalarSigned(img, k) == [p \in Pix |-> img[p] - k]

\* uint16 array minus a Python int that fits uint16: the result stays uint16
SubScalar(img, k) == [p \in Pix |-> (img[p] - k) % UINT16]

\* uint16 array minus uint16 array
SubImage(a, b) == [p \in Pix |-> (a[p] - b[p]) % UINT16]

\* the indices a Python slice lo:hi selects on an axis of length n
PySlice(lo, hi, n) ==
  LET l == IF lo < 0 THEN Max(lo + n, 0) ELSE Min(lo, n)
      h == IF hi < 0 THEN Max(hi + n, 0) ELSE Min(hi, n)
  IN  l .. (h - 1)

\* the k-th smallest (k >= 1) of the samples img[p], p \in D
KthSmallest(img, D, k) ==
  CHOOSE x \in {img[p] : p \in D} :
    /\ Cardinality({p \in D : img[p] < x}) < k
    /\ Cardinality({p \in D : img[p] <= x}) >= k

\* np.median over the samples of D, assigned into a uint16 array: the float
\* mean of the two middle samples is truncated
MedianU16(img, D) ==
  LET n == Cardinality(D)
  IN  IF n % 2 = 1
      THEN KthSmallest(img, D, (n + 1) \div 2)
      ELSE (KthSmallest(img, D, n \div 2) + KthSmallest(img, D, n \div 2 + 1)) \div 2

\* img[max(0,i-1):i+2, max(0,j-1):j+2]
SliceLo(i) == Max(0, i - 1)

\* a neighbourhood that stops one short on the far side
NeighbourhoodNarrow(i, j) ==
  PySlice(SliceLo(i), i + 1, ImgH) \X PySlice(SliceLo(j), j + 1, ImgW)

Neighbourhood(i, j) ==
  PySlice(SliceLo(i), i + 2, ImgH) \X PySlice(SliceLo(j), j + 2, ImgW)

\* img[i,j] = np.median(img[max(0,i-1):i+2,max(0,j-1):j+2])
CorrectOne(img, i, j) ==
  [img EXCEPT ![<<i, j>>] = MedianU16(img, Neighbourhood(i, j))]

\* for i,j in self.dead_pixels: ...; return img
RECURSIVE correct_dead_pix(_, _)
correct_dead_pix(dead, img) ==
  IF dead = <<>> THEN img
  ELSE correct_dead_pix(Tail(dead), CorrectOne(img, Head(dead)[1], Head(dead)[2]))

\* row-major order, as np.where returns the coordinates
RECURSIVE RowMajor(_)
RowMajor(S) ==
  IF S = {} THEN <<>>
  ELSE LET m == CHOOSE p \in S :
                  \A q \in S : p[1] < q[1] \/ (p[1] = q[1] /\ p[2] <= q[2])
       IN  <<m>> \o RowMajor(S \ {m})

DeadTest(v) == v < DEAD_THRESHOLD

\* list(zip(*np.where(crop(frame) < 100)))
get_dead_pix_list(data) ==
  LET img == crop(data)
  IN  RowMajor({p \in Pix : DeadTest(img[p])})

\* ------------------------------------------------------------------ inputs

\* sample values of a raw uint16 sample: below the dead-pixel threshold,
\* below and above the calibration offset
LowSample == DEAD_THRESHOLD - 60
BaseSamples == {1500, 1700}
BorderSamples == {0, 40}

\* positions that carry a low sample: a corner, its neighbour, the last pixel
SamplePos == {<<0, 0>>, <<0, 1>>, <<ImgH - 1, ImgW - 1>>}
LowSets == {S \in SUBSET SamplePos : Cardinality(S) <= 2}

\* a raw frame: the image inside, the border value outside
MkRaw(base, low, border) ==
  [q \in RawRows \X RawCols |->
     IF /\ q[1] - CROP_TOP \in Rows
        /\ q[2] - CROP_LEFT \in Cols
     THEN IF <<q[1] - CROP_TOP, q[2] - CROP_LEFT>> \in low THEN LowSample ELSE base
     ELSE border]

\* status bytes a frame may carry (index 4 of the buffer): the three the
\* code tests and one it does not
Statuses == {STATUS_CALIB, 2, STATUS_NORMAL, STATUS_DEADPIX}

\* ------------------------------------------------------------------- state

VARIABLES
  pc,           \* where the session is
  i,            \* __init__'s loop index
  calib,        \* self.calib
  dead_pixels,  \* self.dead_pixels (Unassigned before __init__ assigns it)
  ret,          \* what the last get_image() returned
  err,          \* the exception that ended the last call
  nInit,        \* history: init() calls issued by __init__
  nGrab,        \* history: grab() calls issued by __init__
  lastStatus,   \* history: status of the last grab()
  lastPresent,  \* history: did the last grab() return a frame (not None)
  deadSrc,      \* history: the cropped frame dead_pixels was computed from
  calibSrc,     \* history: the cropped frame calib was computed from
  imgSrc,       \* history: the cropped frame of the delivered image
  diff,         \* history: the delivered image before dead-pixel correction
  dropped,      \* history: a normal frame was discarded for want of a reference
  \* init()
  ipc,          \* the line of init() about to run, or idle / done / failed
  li,           \* init()'s loop variable i
  lj,           \* init()'s loop variable j
  sent,         \* the control transfers of this call: request, data, acknowledged
  ierr,         \* the exception that ended init()
  nCalls,       \* history: calls of init() so far
  \* grab()
  gpc,          \* the line of grab() about to run, or idle / returned / raised
  retLen,       \* len(ret)
  retHead,      \* the first bytes of ret (up to HeadLen of them)
  remaining,    \* grab()'s remaining
  gstatus,      \* the status grab() returned
  gpresent,     \* did grab() return a frame (not None)
  gerr,         \* the exception that ended grab()
  stream,       \* device: the first bytes of the data it sends for this grab()
  dleft,        \* device: bytes it still has to send for this grab()
  rate,         \* device: the most bytes it hands to one bulk read
  nShort,       \* history: short reads of this grab()
  nReads,       \* history: bulk reads of this grab()
  nStart,       \* history: start-transfer writes of this grab()
  \* correct_dead_pix()
  xpc,          \* idle, in the loop, or returned
  ximg,         \* img
  xdead,        \* self.dead_pixels
  xk,           \* the position in the list the loop is at
  xin,          \* history: img as passed in
  xpass,        \* history: which application of correct_dead_pix() this is
  xfirst,       \* history: img as the first application returned it
  \* crop()
  cpc,          \* idle, called or returned
  craw,         \* raw_img
  cout          \* what crop() returned

sessionVars == <<pc, i, calib, dead_pixels, ret, err, nInit, nGrab,
                 lastStatus, lastPresent, deadSrc, calibSrc, imgSrc, diff,
                 dropped>>

initVars == <<ipc, li, lj, sent, ierr, nCalls>>

grabVars == <<gpc, retLen, retHead, remaining, gstatus, gpresent, gerr,
              stream, dleft, rate, nShort, nReads, nStart>>

pixVars == <<xpc, ximg, xdead, xk, xin, xpass, xfirst>>

cropVars == <<cpc, craw, cout>>

vars == <<sessionVars, initVars, grabVars, pixVars, cropVars>>

\* what the session's steps leave alone
notSession == <<initVars, grabVars, pixVars, cropVars>>

\* what init()'s steps leave alone
notInit == <<sessionVars, grabVars, pixVars, cropVars>>

\* what grab()'s steps leave alone
notGrab == <<sessionVars, initVars, pixVars, cropVars>>

\* what correct_dead_pix()'s steps leave alone
notPix == <<sessionVars, initVars, grabVars, cropVars>>

\* what crop()'s steps leave alone
notCrop == <<sessionVars, initVars, grabVars, pixVars>>

\* a constructor that starts with a zero reference instead of None
InitCalibZero == [p \in Pix |-> 0]

\* self.calib = None
InitCalib == None

\* no init() is being followed
InitIdle ==
  /\ ipc = "idle"
  /\ li = 0
  /\ lj = 0
  /\ sent = << >>
  /\ ierr = "none"
  /\ nCalls = 0

\* after line 43: device found and configured, self.calib = None
SessionInit ==
  /\ pc = "ctor"
  /\ i = 0
  /\ calib = InitCalib
  /\ dead_pixels = Unassigned
  /\ ret = None
  /\ err = "none"
  /\ nInit = 0
  /\ nGrab = 0
  /\ lastStatus = 0
  /\ lastPresent = FALSE
  /\ deadSrc = None
  /\ calibSrc = None
  /\ imgSrc = None
  /\ diff = None
  /\ dropped = FALSE

\* no grab() is being followed
GrabIdle ==
  /\ gpc = "idle"
  /\ retLen = 0
  /\ retHead = << >>
  /\ remaining = 0
  /\ gstatus = 0
  /\ gpresent = FALSE
  /\ gerr = "none"
  /\ stream = << >>
  /\ dleft = 0
  /\ rate = CHUNK
  /\ nShort = 0
  /\ nReads = 0
  /\ nStart = 0

\* no correct_dead_pix() is being followed
PixIdle ==
  /\ xpc = "idle"
  /\ ximg = None
  /\ xdead = << >>
  /\ xk = 1
  /\ xin = None
  /\ xpass = 1
  /\ xfirst = None

\* no crop() is being followed
CropIdle ==
  /\ cpc = "idle"
  /\ craw = None
  /\ cout = None

Init == SessionInit /\ InitIdle /\ GrabIdle /\ PixIdle /\ CropIdle

\* ---------------------------------------------------------------- __init__

\* a give-up test that fires one turn early
GiveUpEarly(k) == k = CTOR_GIVEUP - 1

\* if i == 4
GiveUp(k) == k = CTOR_GIVEUP

\* a give-up that leaves self.dead_pixels unassigned
GiveUpListUnset == Unassigned

\* self.dead_pixels = []
GiveUpList == << >>

\* i == 4: forget about dead pixels
CtorGiveUp ==
  /\ pc = "ctor"
  /\ i < CTOR_RANGE
  /\ GiveUp(i)
  /\ dead_pixels' = GiveUpList
  /\ pc' = "ready"
  /\ UNCHANGED <<i, calib, ret, err, nInit, nGrab, lastStatus, lastPresent,
                 deadSrc, calibSrc, imgSrc, diff, dropped>>
  /\ UNCHANGED notSession

\* self.init() raises (a control write failed)
CtorInitFails ==
  /\ pc = "ctor"
  /\ i < CTOR_RANGE
  /\ ~GiveUp(i)
  /\ nInit' = nInit + 1
  /\ pc' = "ctor_raised"
  /\ err' = "TransportError"
  /\ UNCHANGED <<i, calib, dead_pixels, ret, nGrab, lastStatus, lastPresent,
                 deadSrc, calibSrc, imgSrc, diff, dropped>>
  /\ UNCHANGED notSession

\* self.init() succeeds, self.grab() raises
CtorGrabFails ==
  /\ pc = "ctor"
  /\ i < CTOR_RANGE
  /\ ~GiveUp(i)
  /\ nInit' = nInit + 1
  /\ nGrab' = nGrab + 1
  /\ pc' = "ctor_raised"
  /\ err' = "TransportError"
  /\ UNCHANGED <<i, calib, dead_pixels, ret, lastStatus, lastPresent,
                 deadSrc, calibSrc, imgSrc, diff, dropped>>
  /\ UNCHANGED notSession

\* what __init__ does with the (status, ret) of one grab(); present is
\* FALSE when ret is None
CtorHandle(status, present, frame) ==
  IF status = STATUS_DEADPIX
  THEN IF ~present
       THEN \* np.frombuffer(None, ...) raises TypeError
            /\ pc' = "ctor_raised"
            /\ err' = "TypeError"
            /\ UNCHANGED <<i, dead_pixels, deadSrc>>
       ELSE /\ dead_pixels' = get_dead_pix_list(frame)
            /\ deadSrc' = crop(frame)
            /\ pc' = "ready"
            /\ UNCHANGED <<i, err>>
  ELSE /\ i' = i + 1
       /\ UNCHANGED <<pc, dead_pixels, err, deadSrc>>

\* one attempt where grab() returns a frame of exactly the expected length
CtorAttemptFrame ==
  /\ pc = "ctor"
  /\ i < CTOR_RANGE
  /\ ~GiveUp(i)
  /\ \E status \in Statuses, base \in BaseSamples, low \in LowSets,
        border \in BorderSamples :
       /\ lastStatus' = status
       /\ lastPresent' = TRUE
       /\ CtorHandle(status, TRUE, MkRaw(base, low, border))
  /\ nInit' = nInit + 1
  /\ nGrab' = nGrab + 1
  /\ UNCHANGED <<calib, ret, calibSrc, imgSrc, diff, dropped>>
  /\ UNCHANGED notSession

\* one attempt where grab() returns (status, None)
CtorAttemptAbsent ==
  /\ pc = "ctor"
  /\ i < CTOR_RANGE
  /\ ~GiveUp(i)
  /\ \E status \in Statuses :
       /\ lastStatus' = status
       /\ lastPresent' = FALSE
       /\ CtorHandle(status, FALSE, None)
  /\ nInit' = nInit + 1
  /\ nGrab' = nGrab + 1
  /\ UNCHANGED <<calib, ret, calibSrc, imgSrc, diff, dropped>>
  /\ UNCHANGED notSession

\* --------------------------------------------------------------- get_image

\* the caller calls get_image() on the constructed object
GetImageCall ==
  /\ pc \in {"ready", "returned", "raised"}
  /\ pc' = "get_image"
  /\ ret' = None
  /\ err' = "none"
  /\ imgSrc' = None
  /\ diff' = None
  /\ UNCHANGED <<i, calib, dead_pixels, nInit, nGrab, lastStatus, lastPresent,
                 deadSrc, calibSrc, dropped>>
  /\ UNCHANGED notSession

\* self.grab() raises inside get_image()
GetImageGrabFails ==
  /\ pc = "get_image"
  /\ pc' = "raised"
  /\ err' = "TransportError"
  /\ UNCHANGED <<i, calib, dead_pixels, ret, nInit, nGrab, lastStatus,
                 lastPresent, deadSrc, calibSrc, imgSrc, diff, dropped>>
  /\ UNCHANGED notSession

\* if self.calib is not None
Deliverable(c) == c # None

\* a reference that is used up by the image it corrects
CalibAfterNormalCleared(c, cropped) == None

\* a subtraction carried out in place on the reference (c -= ...)
CalibAfterNormalInPlace(c, cropped) == SubImage(cropped, c)

\* self.crop(img)-self.calib builds a new array: self.calib stays as it was
CalibAfterNormal(c, cropped) == c

\* one turn of get_image()'s loop on the (status, img) of one grab();
\* present is FALSE when img is None
GetImageHandle(status, present, img) ==
  IF status = STATUS_CALIB
  THEN IF ~present
       THEN \* self.crop(None) raises TypeError
            /\ pc' = "raised"
            /\ err' = "TypeError"
            /\ UNCHANGED <<calib, ret, calibSrc, imgSrc, diff, dropped>>
       ELSE /\ calib' = SubScalar(crop(img), CALIB_OFFSET)
            /\ calibSrc' = crop(img)
            /\ UNCHANGED <<pc, ret, err, imgSrc, diff, dropped>>
  ELSE IF status = STATUS_NORMAL /\ Deliverable(calib)
  THEN IF ~present
       THEN \* self.crop(None) raises TypeError
            /\ pc' = "raised"
            /\ err' = "TypeError"
            /\ UNCHANGED <<calib, ret, calibSrc, imgSrc, diff, dropped>>
       ELSE /\ imgSrc' = crop(img)
            /\ diff' = SubImage(crop(img), calib)
            /\ ret' = correct_dead_pix(dead_pixels, SubImage(crop(img), calib))
            /\ pc' = "returned"
            /\ calib' = CalibAfterNormal(calib, crop(img))
            /\ UNCHANGED <<err, calibSrc, dropped>>
  ELSE /\ dropped' = (dropped \/ status = STATUS_NORMAL)
       /\ UNCHANGED <<pc, calib, ret, err, calibSrc, imgSrc, diff>>

\* one turn of the loop where grab() returns a frame
GetImageFrame ==
  /\ pc = "get_image"
  /\ \E status \in Statuses, base \in BaseSamples, low \in LowSets,
        border \in BorderSamples :
       /\ lastStatus' = status
       /\ lastPresent' = TRUE
       /\ GetImageHandle(status, TRUE, MkRaw(base, low, border))
  /\ UNCHANGED <<i, dead_pixels, nInit, nGrab, deadSrc>>
  /\ UNCHANGED notSession

\* one turn of the loop where grab() returns (status, None)
GetImageAbsent ==
  /\ pc = "get_image"
  /\ \E status \in Statuses :
       /\ lastStatus' = status
       /\ lastPresent' = FALSE
       /\ GetImageHandle(status, FALSE, None)
  /\ UNCHANGED <<i, dead_pixels, nInit, nGrab, deadSrc>>
  /\ UNCHANGED notSession

Next ==
  \/ CtorGiveUp
  \/ CtorInitFails
  \/ CtorGrabFails
  \/ CtorAttemptFrame
  \/ CtorAttemptAbsent
  \/ GetImageCall
  \/ GetImageGrabFails
  \/ GetImageFrame
  \/ GetImageAbsent

Spec == Init /\ [][Next]_vars

\* ------------------------------------------------------------------ init()

\* what dev.ctrl_transfer may answer for a write of data: the number of
\* bytes acknowledged (all, all but one, none), or -1 for a raised USBError
Acks(data) == {Len(data), Len(data) - 1, 0, -1}

\* an acknowledgement test that accepts any non-zero count
AckOkLoose(ack, data) == ack > 0

\* send_msg: assert ctrl_transfer(...) == len(data_or_wLength)
AckOk(ack, data) == ack = Len(data)

\* send_msg(bRequest, data) at line `here` of init(); control goes on at
\* `there` when the write is acknowledged in full, and init() ends with the
\* exception otherwise
SendMsg(here, bRequest, data, there) ==
  /\ ipc = here
  /\ \E ack \in Acks(data) :
       /\ sent' = Append(sent, [req |-> bRequest, data |-> data, ack |-> ack])
       /\ IF ack = -1
          THEN ipc' = "failed" /\ ierr' = "USBError"
          ELSE IF AckOk(ack, data)
          THEN ipc' = there /\ ierr' = ierr
          ELSE ipc' = "failed" /\ ierr' = "AssertionError"

\* a caller calls init(); nothing of the session is read
InitCalled ==
  /\ ipc \in {"idle", "done", "failed"}
  /\ nCalls < MaxInitCalls
  /\ nCalls' = nCalls + 1
  /\ ipc' = "l104"
  /\ sent' = << >>
  /\ ierr' = "none"
  /\ UNCHANGED <<li, lj>>
  /\ UNCHANGED notInit

Init104 ==
  /\ SendMsg("l104", SET_OPERATION_MODE, <<0, 0>>, "l109")
  /\ UNCHANGED <<li, lj, nCalls>>
  /\ UNCHANGED notInit

Init109 ==
  /\ SendMsg("l109", SET_FACTORY_SETTINGS_FEATURES, <<6, 0, 8, 0, 0, 0>>, "l112")
  /\ UNCHANGED <<li, lj, nCalls>>
  /\ UNCHANGED notInit

Init112 ==
  /\ SendMsg("l112", SET_FIRMWARE_INFO_FEATURES, <<23, 0>>, "l115")
  /\ UNCHANGED <<li, lj, nCalls>>
  /\ UNCHANGED notInit

\* the write of line 115, then the loops start: i = 0, j = 0
Init115 ==
  /\ SendMsg("l115", SET_FACTORY_SETTINGS_FEATURES, <<1, 0, 0, 6, 0, 0>>, "l120")
  /\ li' = 0
  /\ lj' = 0
  /\ UNCHANGED nCalls
  /\ UNCHANGED notInit

\* a payload with the two loop indices exchanged
LoopPayloadSwapped(a, b) == <<32, 0, a, b, 0, 0>>

\* b"\x20\x00" + bytes([j, i]) + b"\x00\x00"
LoopPayload(a, b) == <<32, 0, b, a, 0, 0>>

\* the write of line 120, then the next turn of the inner or outer loop
Init120 ==
  /\ SendMsg("l120", SET_FACTORY_SETTINGS_FEATURES, LoopPayload(li, lj),
             IF lj + INIT_J_STEP < INIT_J_STOP \/ li + 1 < INIT_I_RANGE
             THEN "l120" ELSE "l124")
  /\ IF lj + INIT_J_STEP < INIT_J_STOP
     THEN lj' = lj + INIT_J_STEP /\ li' = li
     ELSE lj' = 0 /\ li' = li + 1
  /\ UNCHANGED nCalls
  /\ UNCHANGED notInit

Init124 ==
  /\ SendMsg("l124", SET_FIRMWARE_INFO_FEATURES, <<21, 0>>, "l127")
  /\ UNCHANGED <<li, lj, nCalls>>
  /\ UNCHANGED notInit

Init127 ==
  /\ SendMsg("l127", SET_IMAGE_PROCESSING_MODE, <<8, 0>>, "l130")
  /\ UNCHANGED <<li, lj, nCalls>>
  /\ UNCHANGED notInit

Init130 ==
  /\ SendMsg("l130", SET_OPERATION_MODE, <<1, 0>>, "done")
  /\ UNCHANGED <<li, lj, nCalls>>
  /\ UNCHANGED notInit

NextInit ==
  \/ InitCalled
  \/ Init104
  \/ Init109
  \/ Init112
  \/ Init115
  \/ Init120
  \/ Init124
  \/ Init127
  \/ Init130

SpecInit == Init /\ [][NextInit]_vars

\* ------------------------------------------------------------------ grab()

\* toread = 2*RAW_WIDTH*RAW_HEIGHT
TOREAD == 2 * RAW_WIDTH * RAW_HEIGHT

\* the bytes of ret the model keeps: those up to the status byte and one more
HeadLen == STATUS_INDEX + 2

\* the first bytes of the data of one frame: the status at index 4
Header(status, other) == <<other, other, other, other, status, other>>

\* the sizes of the transfers the device may make for one grab(): a whole
\* frame, 200 and 600 bytes less, the tolerance and one byte more less, a
\* chunk more, three bytes; and the 174960 bytes the specification takes
\* for a whole frame, 200 and 600 bytes less
DeviceTotals ==
  {TOREAD, TOREAD - 200, TOREAD - 600, TOREAD - TOLERANCE,
   TOREAD - TOLERANCE - 1, TOREAD + CHUNK, 3,
   174960, 174960 - 200, 174960 - 600}

\* what one self.dev.read(0x81, 13680, 1000) may return: -1 for a raised
\* USBError (a timeout too), else the number of bytes: as many as the
\* device has, up to the chunk size and to what it hands to one read, or a
\* short read of 4 or 0 bytes
ReadSizes ==
  {-1} \cup (IF dleft > 0 THEN {Min(CHUNK, Min(rate, dleft))} ELSE {})
       \cup (IF nShort < MaxShortReads THEN {0, Min(4, dleft)} ELSE {})

\* ret (or ret += ...) for a read of n bytes: the device's next n bytes
Accumulate(n) ==
  /\ retLen' = retLen + n
  /\ retHead' = SubSeq(stream, 1, Min(retLen + n, Min(HeadLen, Len(stream))))
  /\ remaining' = TOREAD - (retLen + n)
  /\ dleft' = dleft - n
  /\ nShort' = IF n < Min(CHUNK, dleft) \/ n = 0 THEN nShort + 1 ELSE nShort
  /\ nReads' = nReads + 1

\* a caller calls grab(); the device has one transfer ready, of one of the
\* sizes of totals, and hands at most one of rates bytes to a read
GrabCalledWith(totals, statuses, others, rates) ==
  /\ gpc \in {"idle", "returned", "raised"}
  /\ gpc' = "l139"
  /\ \E total \in totals, status \in statuses, other \in others :
       /\ dleft' = total
       /\ stream' = SubSeq(Header(status, other), 1, Min(HeadLen, total))
  /\ rate' \in rates
  /\ retLen' = 0
  /\ retHead' = << >>
  /\ remaining' = 0
  /\ gstatus' = 0
  /\ gpresent' = FALSE
  /\ gerr' = "none"
  /\ nShort' = 0
  /\ nReads' = 0
  /\ nStart' = 0
  /\ UNCHANGED notGrab

\* a caller calls grab(); the device hands out whole chunks
GrabCalled == GrabCalledWith(DeviceTotals, Statuses, {0, 3}, {CHUNK})

\* self.send_msg(START_GET_IMAGE_TRANSFER, b'\x58\x5b\x01\x00')
GrabStart ==
  /\ gpc = "l139"
  /\ nStart' = nStart + 1
  /\ \E ack \in Acks(<<88, 91, 1, 0>>) :
       IF ack = -1
       THEN gpc' = "raised" /\ gerr' = "USBError"
       ELSE IF AckOk(ack, <<88, 91, 1, 0>>)
       THEN gpc' = "l141" /\ gerr' = gerr
       ELSE gpc' = "raised" /\ gerr' = "AssertionError"
  /\ UNCHANGED <<retLen, retHead, remaining, gstatus, gpresent, stream, dleft,
                 rate, nShort, nReads>>
  /\ UNCHANGED notGrab

\* ret = self.dev.read(...); remaining = toread-len(ret), the read
\* returning one of sizes
GrabFirstReadOf(sizes) ==
  /\ gpc = "l141"
  /\ \E n \in sizes :
       IF n = -1
       THEN /\ gpc' = "raised"
            /\ gerr' = "USBError"
            /\ nReads' = nReads + 1
            /\ UNCHANGED <<retLen, retHead, remaining, dleft, nShort>>
       ELSE /\ Accumulate(n)
            /\ gpc' = "l145"
            /\ gerr' = gerr
  /\ UNCHANGED <<gstatus, gpresent, stream, rate, nStart>>
  /\ UNCHANGED notGrab

GrabFirstRead == GrabFirstReadOf(ReadSizes)

\* a loop test with the comparison turned round
StillMissingInverted(r) == r < TOLERANCE

\* a loop test with twice the tolerance
StillMissingLoose(r) == r > 2 * TOLERANCE

\* a loop test that reads until nothing is missing
StillMissingExact(r) == r > 0

\* while remaining > 512
StillMissing(r) == r > TOLERANCE

\* ret += self.dev.read(...); remaining = toread-len(ret), the read
\* returning one of sizes
GrabLoopReadOf(sizes) ==
  /\ gpc = "l145"
  /\ StillMissing(remaining)
  /\ \E n \in sizes :
       IF n = -1
       THEN /\ gpc' = "raised"
            /\ gerr' = "USBError"
            /\ nReads' = nReads + 1
            /\ UNCHANGED <<retLen, retHead, remaining, dleft, nShort>>
       ELSE /\ Accumulate(n)
            /\ gpc' = "l145"
            /\ gerr' = gerr
  /\ UNCHANGED <<gstatus, gpresent, stream, rate, nStart>>
  /\ UNCHANGED notGrab

GrabLoopRead == GrabLoopReadOf(ReadSizes)

\* a length test that accepts a buffer within the tolerance
FrameCompleteTolerant(n) == TOREAD - n <= TOLERANCE

\* if len(ret) == RAW_HEIGHT*RAW_WIDTH*2
FrameComplete(n) == n = RAW_HEIGHT * RAW_WIDTH * 2

\* status = ret[4], then return status and the frame, or status and None
GrabFinish ==
  /\ gpc = "l145"
  /\ ~StillMissing(remaining)
  /\ IF retLen <= STATUS_INDEX
     THEN \* ret[4] raises IndexError
          /\ gpc' = "raised"
          /\ gerr' = "IndexError"
          /\ UNCHANGED <<gstatus, gpresent>>
     ELSE /\ gstatus' = retHead[STATUS_INDEX + 1]
          /\ gpresent' = FrameComplete(retLen)
          /\ gpc' = "returned"
          /\ gerr' = gerr
  /\ UNCHANGED <<retLen, retHead, remaining, stream, dleft, rate, nShort,
                 nReads, nStart>>
  /\ UNCHANGED notGrab

NextGrab ==
  \/ GrabCalled
  \/ GrabStart
  \/ GrabFirstRead
  \/ GrabLoopRead
  \/ GrabFinish

SpecGrab == Init /\ [][NextGrab]_vars

\* ------------------------------------------- grab() from a device that trickles

\* the most bytes the device hands to one bulk read: one byte, a hundred, a
\* whole chunk
SlowRates == {1, 100, CHUNK}

\* what one self.dev.read(0x81, 13680, 1000) returns when every read fails
\* or returns at least one byte: -1 for a raised USBError, else the bytes
\* the device hands out
SlowSizes == {-1, Min(CHUNK, Min(rate, dleft))}

\* a caller calls grab(); the device has a frame and a chunk more to send
GrabCalledSlow ==
  GrabCalledWith({TOREAD + CHUNK}, {STATUS_NORMAL}, {0}, SlowRates)

GrabFirstReadSlow == GrabFirstReadOf(SlowSizes)

GrabLoopReadSlow == GrabLoopReadOf(SlowSizes)

NextGrabSlow ==
  \/ GrabCalledSlow
  \/ GrabStart
  \/ GrabFirstReadSlow
  \/ GrabLoopReadSlow
  \/ GrabFinish

\* grab() runs on: a statement that can be executed is executed
SpecGrabSlow ==
  /\ Init
  /\ [][NextGrabSlow]_vars
  /\ WF_vars(GrabStart)
  /\ WF_vars(GrabFirstReadSlow)
  /\ WF_vars(GrabLoopReadSlow)
  /\ WF_vars(GrabFinish)

\* ------------------------------------------- get_image() with grab() inside

\* the constructed object: __init__ gave up on the dead pixels, or it found
\* them in its first frame
CtorFrame == MkRaw(1500, {<<0, 0>>}, 0)

InitGet ==
  /\ InitIdle /\ GrabIdle /\ PixIdle /\ CropIdle
  /\ pc = "ready"
  /\ calib = InitCalib
  /\ ret = None
  /\ err = "none"
  /\ calibSrc = None
  /\ imgSrc = None
  /\ diff = None
  /\ dropped = FALSE
  /\ \/ /\ i = CTOR_GIVEUP
        /\ dead_pixels = GiveUpList
        /\ nInit = CTOR_GIVEUP
        /\ nGrab = CTOR_GIVEUP
        /\ lastStatus = STATUS_NORMAL
        /\ lastPresent = TRUE
        /\ deadSrc = None
     \/ /\ i = 0
        /\ dead_pixels = get_dead_pix_list(CtorFrame)
        /\ nInit = 1
        /\ nGrab = 1
        /\ lastStatus = STATUS_DEADPIX
        /\ lastPresent = TRUE
        /\ deadSrc = crop(CtorFrame)

\* the transfers the device makes while get_image() is followed: a whole
\* frame, or one 200 bytes short
GetTotals == {TOREAD, TOREAD - 200}

\* status,img = self.grab(): the call
GetCallsGrab ==
  /\ pc = "get_image"
  /\ gpc = "idle"
  /\ GrabCalled
  /\ dleft' \in GetTotals
  /\ stream'[1] = 0

\* grab()'s locals are gone once it has returned or raised
GrabLeft ==
  /\ gpc' = "idle"
  /\ retLen' = 0
  /\ retHead' = << >>
  /\ remaining' = 0
  /\ gstatus' = 0
  /\ gpresent' = FALSE
  /\ gerr' = "none"
  /\ stream' = << >>
  /\ dleft' = 0
  /\ rate' = CHUNK
  /\ nShort' = 0
  /\ nReads' = 0
  /\ nStart' = 0

\* a get_image() that catches the exception and grabs again
AfterGrabRaisesRetry == "get_image"

\* nothing in get_image() catches what grab() raises: the call ends
AfterGrabRaises == "raised"

\* grab() raised: the exception leaves get_image()
GetGrabRaises ==
  /\ pc = "get_image"
  /\ gpc = "raised"
  /\ pc' = AfterGrabRaises
  /\ err' = gerr
  /\ GrabLeft
  /\ UNCHANGED <<i, calib, dead_pixels, ret, nInit, nGrab, lastStatus,
                 lastPresent, deadSrc, calibSrc, imgSrc, diff, dropped>>
  /\ UNCHANGED <<initVars, pixVars, cropVars>>

\* grab() returned: one turn of get_image()'s loop on what it returned
GetGrabReturns ==
  /\ pc = "get_image"
  /\ gpc = "returned"
  /\ lastStatus' = gstatus
  /\ lastPresent' = gpresent
  /\ IF gpresent
     THEN \E base \in BaseSamples, low \in {{}, {<<0, 0>>}} :
            GetImageHandle(gstatus, TRUE, MkRaw(base, low, 0))
     ELSE GetImageHandle(gstatus, FALSE, None)
  /\ GrabLeft
  /\ UNCHANGED <<i, dead_pixels, nInit, nGrab, deadSrc>>
  /\ UNCHANGED <<initVars, pixVars, cropVars>>

\* a step of grab() called from get_image()
GetGrabStep ==
  /\ pc = "get_image"
  /\ \/ GrabStart
     \/ GrabFirstRead
     \/ GrabLoopRead
     \/ GrabFinish

NextGet ==
  \/ GetImageCall
  \/ GetCallsGrab
  \/ GetGrabStep
  \/ GetGrabRaises
  \/ GetGrabReturns

SpecGet == InitGet /\ [][NextGet]_vars

\* -------------------------------------------------------- correct_dead_pix()

\* sample images: a slope whose neighbouring samples differ in parity, or a
\* flat image, with at most one sample at an end of the uint16 range
Slope(p) == 2 * p[1] + 3 * p[2]

PixImages ==
  {[p \in Pix |-> IF p \in S THEN b ELSE IF flat THEN 7 ELSE Slope(p)] :
     S \in {T \in SUBSET Pix : Cardinality(T) <= 1},
     b \in {0, UINT16 - 1}, flat \in BOOLEAN}

\* the lists get_dead_pix_list() can build: distinct coordinates in
\* row-major order
DeadLists == {RowMajor(S) : S \in {T \in SUBSET Pix : Cardinality(T) <= MaxDead}}

\* correct_dead_pix(img) is called with self.dead_pixels = xdead
InitPix ==
  /\ SessionInit /\ InitIdle /\ GrabIdle /\ CropIdle
  /\ xpc = "loop"
  /\ ximg \in PixImages
  /\ xdead \in DeadLists
  /\ xk = 1
  /\ xin = ximg
  /\ xpass = 1
  /\ xfirst = None

\* one turn of the loop: the next listed coordinate is replaced
PixCorrectStep ==
  /\ xpc = "loop"
  /\ xk <= Len(xdead)
  /\ ximg' = CorrectOne(ximg, xdead[xk][1], xdead[xk][2])
  /\ xk' = xk + 1
  /\ UNCHANGED <<xpc, xdead, xin, xpass, xfirst>>
  /\ UNCHANGED notPix

\* the list is exhausted: return img
PixReturn ==
  /\ xpc = "loop"
  /\ xk > Len(xdead)
  /\ xpc' = "done"
  /\ UNCHANGED <<ximg, xdead, xk, xin, xpass, xfirst>>
  /\ UNCHANGED notPix

NextPix ==
  \/ PixCorrectStep
  \/ PixReturn

SpecPix == InitPix /\ [][NextPix]_vars

\* the caller applies correct_dead_pix() once more, to the image the first
\* application returned, self.dead_pixels being the same list
PixReapply ==
  /\ xpc = "done"
  /\ xpass = 1
  /\ xpc' = "loop"
  /\ xk' = 1
  /\ xpass' = 2
  /\ xfirst' = ximg
  /\ UNCHANGED <<ximg, xdead, xin>>
  /\ UNCHANGED notPix

NextPixTwice ==
  \/ PixCorrectStep
  \/ PixReturn
  \/ PixReapply

SpecPixTwice == InitPix /\ [][NextPixTwice]_vars

\* ------------------------------------------------------------------ crop()

\* is q inside the window the image is cut from
Inside(q) == q[1] - CROP_TOP \in Rows /\ q[2] - CROP_LEFT \in Cols

\* raw frames as grab() reshapes them, RAW_HEIGHT - HEIGHT rows and
\* RAW_WIDTH - WIDTH columns larger than the image: every sample inside
\* the window is told by its position, the border is uniform or told by its
\* position
CropFrames ==
  {[q \in RawRows \X RawCols |->
      IF Inside(q) THEN (a * (50 * q[1] + q[2]) + b) % UINT16
      ELSE IF flat THEN border ELSE (border + 7 * q[1] + q[2]) % UINT16] :
     a \in {1, 2, 1000}, b \in {0, 7, 100}, border \in {0, 40, UINT16 - 1},
     flat \in BOOLEAN}

\* crop(raw_img) is called
CropCalled ==
  /\ cpc \in {"idle", "returned"}
  /\ cpc' = "called"
  /\ craw' \in CropFrames
  /\ cout' = None
  /\ UNCHANGED notCrop

\* return raw_img[4:4+HEIGHT,1:1+WIDTH]
CropReturn ==
  /\ cpc = "called"
  /\ cpc' = "returned"
  /\ cout' = crop(craw)
  /\ UNCHANGED craw
  /\ UNCHANGED notCrop

NextCrop ==
  \/ CropCalled
  \/ CropReturn

SpecCrop == Init /\ [][NextCrop]_vars

\* ------------------------------------------------------------------ claims

SeqToSet(s) == {s[k] : k \in 1 .. Len(s)}

\* a step of get_image() in which grab() returned (it did not raise)
GrabReturned == pc = "get_image" /\ err' # "TransportError"

\* C1: get_image() never returns an image before a calibration-status frame
\* has been processed in the session, and a normal-status frame grabbed
\* while the calibration reference is absent is discarded: the loop goes on,
\* nothing is delivered and nothing is raised.
C1_NoImageBeforeCalibration ==
  /\ [](pc = "returned" => (ret # None /\ calibSrc # None))
  /\ [][(GrabReturned /\ calib = None /\ lastStatus' = 3)
          => (pc' = "get_image" /\ ret' = None /\ err' = "none"
              /\ calib' = None)]_vars

\* C1 witness: an image was delivered after a normal frame had been
\* discarded for want of a reference (the reference came later).
C1_Witness ==
  pc = "returned" /\ ret # None /\ calibSrc # None /\ dropped

\* C2 (as claimed): in get_image(), a grab() result with a status other than
\* 1 or 3, or with the frame absent under any status, is discarded: the loop
\* continues, no image is delivered, no error is raised and the calibration
\* reference is unchanged.
C2_AbsentOrOtherDiscarded ==
  [][(GrabReturned /\ (lastStatus' \notin {1, 3} \/ ~lastPresent'))
       => (pc' = "get_image" /\ ret' = None /\ err' = "none"
           /\ calib' = calib)]_vars

\* the coordinates of a cropped frame whose sample is below 100
BelowThreshold(img) == {p \in Pix : img[p] < 100}

\* a step of __init__ in which grab() returned (it did not raise)
CtorGrabReturned ==
  pc = "ctor" /\ nGrab' = nGrab + 1 /\ err' # "TransportError"

\* C5 (as claimed): discovery makes up to 5 attempts, init() then grab()
\* each; whichever attempt k in 1..5 is the first whose grab() returns
\* status 4 (with its frame), discovery succeeds there with the thresholded
\* coordinates of that frame; so the degraded mode is entered only after 5
\* attempts.
C5_FiveAttempts ==
  /\ nInit <= 5 /\ nGrab <= 5
  /\ (pc = "ready" /\ deadSrc # None)
       => (SeqToSet(dead_pixels) = BelowThreshold(deadSrc) /\ nGrab \in 1 .. 5)
  /\ (pc = "ready" /\ deadSrc = None) => nGrab = 5

\* C5 (amended): discovery makes up to 4 attempts, init() then grab() each
\* (the fifth turn of the loop gives up without init() or grab()); for every
\* k in 1..4, if the first grab() returning status 4 is the k-th attempt,
\* discovery ends at attempt k and the constructor issues no further init()
\* or grab(): with the frame present the dead-pixel list is set to the
\* coordinates of that frame whose sample is below 100, each once; with the
\* frame absent the constructor raises and the list stays unassigned. A
\* grab() with another status leads to the next turn, and the degraded mode
\* is entered only after 4 such attempts.
C5_FourAttempts ==
  /\ [](nInit <= 4 /\ nGrab <= 4 /\ nGrab <= nInit)
  /\ []((pc = "ctor" /\ nGrab < 4) => ~ENABLED CtorGiveUp)
  /\ []((pc \notin {"ctor", "ctor_raised"} /\ deadSrc = None) => nGrab = 4)
  /\ [][CtorGrabReturned =>
          /\ nInit' = nGrab' /\ nGrab' = i + 1
          /\ (lastStatus' = 4 /\ lastPresent') =>
               /\ pc' = "ready"
               /\ SeqToSet(dead_pixels') = BelowThreshold(deadSrc')
               /\ Len(dead_pixels') = Cardinality(BelowThreshold(deadSrc'))
          /\ (lastStatus' = 4 /\ ~lastPresent') =>
               (pc' = "ctor_raised" /\ dead_pixels' = Unassigned)
          /\ (lastStatus' # 4) => (pc' = "ctor" /\ i' = i + 1)]_vars
  /\ [][(pc # "ctor") => (nInit' = nInit /\ nGrab' = nGrab
                          /\ dead_pixels' = dead_pixels)]_vars

\* C5 witness: the fourth attempt is the first with status 4 and discovery
\* succeeds there with a non-empty list.
C5_Witness ==
  /\ pc = "ready" /\ nGrab = 4 /\ nInit = 4
  /\ deadSrc # None /\ Len(dead_pixels) = 2

\* C6: when no grab() of the discovery returns status 4 within the attempts
\* the loop makes, the constructor completes without raising and the
\* dead-pixel list is the empty list.
C6_DegradedMode ==
  /\ []((pc = "ctor" /\ nGrab = 4) => ENABLED CtorGiveUp)
  /\ [][(pc = "ctor" /\ nGrab = 4)
          => (pc' = "ready" /\ dead_pixels' = << >> /\ err' = "none"
              /\ nInit' = nInit /\ nGrab' = nGrab)]_vars
  /\ []((pc \notin {"ctor", "ctor_raised"} /\ deadSrc = None)
          => (dead_pixels = << >> /\ nGrab = 4))

\* C6 witness: the object is constructed in degraded mode after four
\* attempts, none with status 4.
C6_Witness ==
  /\ pc = "ready" /\ deadSrc = None /\ dead_pixels = << >>
  /\ nGrab = 4 /\ err = "none" /\ lastStatus # 4

\* the requests and payloads of the transfers logged so far
Writes == [k \in 1 .. Len(sent) |-> <<sent[k].req, sent[k].data>>]

\* is s a prefix of t
IsPrefix(s, t) == Len(s) <= Len(t) /\ \A k \in 1 .. Len(s) : s[k] = t[k]

\* the 87 writes as the claim lists them (request codes: 0x3C = 60,
\* 0x3E = 62, 0x55 = 85, 0x56 = 86)
ClaimedInitSequence ==
  << <<60, <<0, 0>>>>, <<86, <<6, 0, 8, 0, 0, 0>>>>, <<85, <<23, 0>>>>,
     <<86, <<1, 0, 0, 6, 0, 0>>>> >>
  \o [k \in 1 .. 80 |-> <<86, <<32, 0, 32 * ((k - 1) % 8), (k - 1) \div 8, 0, 0>>>>]
  \o << <<85, <<21, 0>>>>, <<62, <<8, 0>>>>, <<60, <<1, 0>>>> >>

\* C7: every call of init(), whatever the number of earlier calls, issues
\* exactly the listed 87 control writes in order and nothing else: while it
\* runs, what it has sent is a prefix of the list; when it returns, it has
\* sent the whole list.
C7_InitSequence ==
  /\ Len(ClaimedInitSequence) = 87
  /\ IsPrefix(Writes, ClaimedInitSequence)
  /\ (ipc = "done") => (Writes = ClaimedInitSequence)
  /\ (ipc \notin {"idle", "done", "failed"}) => (Len(sent) < 87)

\* C7 witness: a second call of init() has returned after its 87 writes,
\* both loops run to their end.
C7_Witness ==
  ipc = "done" /\ nCalls = 2 /\ Len(sent) = 87 /\ li = 10

\* C8: a control write fails unless exactly len(payload) bytes are
\* acknowledged; when the n-th write of init() fails, init() fails there:
\* the failed write is the last transfer of the call (no retry, no later
\* write), and every transfer before it was acknowledged in full.
C8_FailStops ==
  /\ [](\A k \in 1 .. Len(sent) :
          (sent[k].ack # Len(sent[k].data)) => (k = Len(sent) /\ ipc = "failed"))
  /\ []((ipc = "failed") =>
          /\ Len(sent) >= 1
          /\ sent[Len(sent)].ack # Len(sent[Len(sent)].data)
          /\ ierr \in {"AssertionError", "USBError"}
          /\ IsPrefix(Writes, ClaimedInitSequence))
  /\ [][(ipc = "failed") => (sent' = sent \/ (sent' = << >> /\ ipc' = "l104"))]_vars

\* C8 witness: the 50th write of init() was acknowledged one byte short and
\* init() failed there.
C8_Witness ==
  /\ ipc = "failed" /\ Len(sent) = 50 /\ ierr = "AssertionError"
  /\ sent[50].ack = Len(sent[50].data) - 1

\* C3 (as claimed): when the bulk reads of one grab() total 174960 - 200
\* bytes, grab() stops reading, accepts them and returns a frame; when they
\* total 174960 - 600 bytes, grab() stops reading and reports the frame
\* absent.
C3_ToleranceAccepts ==
  /\ (gpc = "l145" /\ retLen = 174960 - 200) => ENABLED GrabFinish
  /\ (gpc = "returned" /\ retLen = 174960 - 200) => gpresent
  /\ (gpc = "l145" /\ retLen = 174960 - 600) => ENABLED GrabFinish
  /\ (gpc = "returned" /\ retLen = 174960 - 600) => ~gpresent

\* C3 (amended): a whole frame is 177840 bytes (2 * 342 * 260), not 174960.
\* When the bulk reads of one grab() total 177840 - 200 bytes (within the
\* 512-byte tolerance), grab() stops reading and reports the frame absent,
\* with the status byte of index 4; when they total 177840 - 600 bytes,
\* grab() reports nothing yet: it issues another bulk read, and never
\* returns with that total. With 174960 - 200 or 174960 - 600 bytes read it
\* keeps reading too.
C3_ToleranceStopsReading ==
  /\ (gpc = "l145" /\ retLen = 177840 - 200)
       => (ENABLED GrabFinish /\ ~ENABLED GrabLoopRead)
  /\ (gpc = "returned" /\ retLen = 177840 - 200)
       => (~gpresent /\ gstatus = stream[5])
  /\ (gpc = "l145" /\ retLen \in {177840 - 600, 174960 - 200, 174960 - 600})
       => (ENABLED GrabLoopRead /\ ~ENABLED GrabFinish)
  /\ (gpc = "returned")
       => (retLen \notin {177840 - 600, 174960 - 200, 174960 - 600})

\* C3 witness: grab() has returned with 177840 - 200 bytes read, the frame
\* absent.
C3_Witness ==
  gpc = "returned" /\ retLen = 177840 - 200 /\ ~gpresent /\ gerr = "none"

\* C4 (as claimed): when grab() returns, the frame is present if and only
\* if exactly 174960 bytes were accumulated, and in both cases the status
\* returned is the byte at index 4 of the accumulated buffer.
C4_PresentIff174960 ==
  (gpc = "returned") =>
    /\ gpresent <=> (retLen = 174960)
    /\ Len(retHead) >= 5
    /\ gstatus = retHead[5]

\* C4 (amended): when grab() returns, the frame is present if and only if
\* exactly 177840 bytes (2 * RAW_WIDTH * RAW_HEIGHT = 2 * 342 * 260) were
\* accumulated, and in both cases the status returned is the byte at index
\* 4 of the accumulated buffer.
C4_PresentIffExact ==
  (gpc = "returned") =>
    /\ gpresent <=> (retLen = 177840)
    /\ Len(retHead) >= 5
    /\ gstatus = retHead[5]
    /\ gerr = "none"

\* C4 witness: grab() has returned a frame after short reads, with a status
\* byte that differs from its neighbours.
C4_Witness ==
  /\ gpc = "returned" /\ gpresent /\ retLen = 177840 /\ nShort > 0
  /\ gstatus = 4 /\ retHead[4] = 3

\* C9 (as claimed): every sample of the stored calibration reference is the
\* signed integer v - 1600 of the calibration frame's sample v, without
\* wrap-around, and every sample of the image before dead-pixel correction
\* is the signed integer w - (v - 1600) of the normal frame's sample w.
C9_SignedExact ==
  /\ (calib # None) =>
       \A p \in Pix : calib[p] = calibSrc[p] - 1600
  /\ (pc = "returned") =>
       \A p \in Pix : diff[p] = imgSrc[p] - (calibSrc[p] - 1600)

\* C9 (amended): the samples are uint16 and both subtractions wrap modulo
\* 2^16: the stored reference sample is (v - 1600) mod 65536 (v + 63936 when
\* v < 1600), and the image sample before dead-pixel correction is
\* (w - v + 1600) mod 65536, which is the integer w - (v - 1600) exactly
\* when that integer lies in 0..65535, also when v < 1600.
C9_Uint16Wraps ==
  /\ (calib # None) =>
       \A p \in Pix :
         /\ calib[p] = (calibSrc[p] - 1600) % 65536
         /\ (calibSrc[p] < 1600) => (calib[p] = calibSrc[p] + 63936)
  /\ (pc = "returned") =>
       \A p \in Pix :
         /\ diff[p] = (imgSrc[p] - calibSrc[p] + 1600) % 65536
         /\ (imgSrc[p] - (calibSrc[p] - 1600) \in 0 .. 65535)
              => (diff[p] = imgSrc[p] - (calibSrc[p] - 1600))
         /\ (imgSrc[p] - (calibSrc[p] - 1600) < 0)
              => (diff[p] = imgSrc[p] - (calibSrc[p] - 1600) + 65536)

\* C9 witness: an image was delivered against a reference taken from
\* samples below 1600; one sample of the image is the exact difference,
\* another has wrapped.
C9_Witness ==
  /\ pc = "returned"
  /\ \E p \in Pix :
       /\ calibSrc[p] < 1600 /\ calib[p] > 60000
       /\ diff[p] = imgSrc[p] - calibSrc[p] + 1600
  /\ \E p \in Pix :
       /\ imgSrc[p] - calibSrc[p] + 1600 < 0
       /\ diff[p] > 60000

\* the rectangle [row-1, row+2) x [col-1, col+2) within the image
Rect(row, col) ==
  {q \in Pix : /\ row - 1 <= q[1] /\ q[1] < row + 2
               /\ col - 1 <= q[2] /\ q[2] < col + 2}

RECURSIVE SetToSeq(_)
SetToSeq(S) ==
  IF S = {} THEN << >>
  ELSE LET x == CHOOSE y \in S : TRUE IN <<x>> \o SetToSeq(S \ {x})

\* the samples of img over N in ascending order
SortedSamples(img, N) ==
  LET at == SetToSeq(N)
  IN  SortSeq([k \in 1 .. Len(at) |-> img[at[k]]], LAMBDA a, b : a < b)

\* twice the median of the samples of img over N: the middle sample twice,
\* or the sum of the two middle samples
TwiceMedian(img, N) ==
  LET srt == SortedSamples(img, N)
      n == Len(srt)
  IN  srt[(n + 1) \div 2] + srt[(n + 2) \div 2]

\* a turn of correct_dead_pix()'s loop is about to run
AtListed == xpc = "loop" /\ xk <= Len(xdead)

\* the number of samples the claim gives a coordinate: 4 in a corner, 6 on
\* an edge, 9 inside
ClaimedCount(row, col) ==
  (IF row \in {0, ImgH - 1} THEN 2 ELSE 3) * (IF col \in {0, ImgW - 1} THEN 2 ELSE 3)

C11_Idempotent ==
  (xpc = "done" /\ xpass = 2) => (\A p \in Pix : ximg[p] = xfirst[p])

\* the part of C11 that the code meets: the second application leaves every
\* pixel outside the list unchanged
C11_OutsideListUnchanged ==
  (xpc = "done" /\ xpass = 2)
    => (\A p \in Pix \ SeqToSet(xdead) : ximg[p] = xfirst[p] /\ ximg[p] = xin[p])

\* C12: for every raw frame (RAW_HEIGHT - HEIGHT rows and RAW_WIDTH - WIDTH
\* columns larger than the image), crop returns exactly height x width
\* samples with output[r][c] = raw[r+4][c+1] (rows [4, 4+height), columns
\* [1, 1+width)); the border samples never influence the output: any raw
\* frame with the same samples in that window gives the same output.
C12_CropWindow ==
  (cpc = "returned") =>
    /\ DOMAIN cout = (0 .. ImgH - 1) \X (0 .. ImgW - 1)
    /\ Cardinality(DOMAIN cout) = ImgH * ImgW
    /\ DOMAIN craw = (0 .. ImgH + 260 - 240 - 1) \X (0 .. ImgW + 342 - 320 - 1)
    /\ \A r \in 0 .. ImgH - 1, c \in 0 .. ImgW - 1 :
         cout[<<r, c>>] = craw[<<r + 4, c + 1>>]
    /\ \A g \in CropFrames :
         (\A r \in 4 .. ImgH + 3, c \in 1 .. ImgW :
            g[<<r, c>>] = craw[<<r, c>>]) => (crop(g) = cout)

\* C12 witness: crop() has returned the window of a frame whose border
\* differs from the window's samples next to it, and another frame has the
\* same window and another border.
C12_Witness ==
  /\ cpc = "returned"
  /\ cout[<<0, 0>>] # craw[<<3, 1>>]
  /\ cout[<<0, 0>>] # craw[<<4, 0>>]
  /\ cout[<<0, 0>>] # craw[<<0, 0>>]
  /\ cout[<<ImgH - 1, ImgW - 1>>] # craw[<<ImgH + 4, ImgW>>]
  /\ cout[<<ImgH - 1, ImgW - 1>>] # craw[<<ImgH + 3, ImgW + 1>>]
  /\ \E g \in CropFrames : g # craw /\ crop(g) = cout

\* what a failed control write or bulk read raises
TransportErrors == {"USBError", "AssertionError"}

\* C13: when the start-transfer write or a bulk read of grab() fails, the
\* failure leaves grab() at once (nothing is returned), and goes through
\* get_image() to its caller: no control write and no bulk read follows for
\* that call, grab() is not called again, no image is returned, and the
\* calibration reference and the dead-pixel list are as they were when that
\* grab() was called.
C13_GrabFailurePropagates ==
  /\ [][(gerr = "none" /\ gerr' # "none") =>
          /\ nStart' + nReads' = nStart + nReads + 1
          /\ gerr' \in TransportErrors
          /\ gpc' = "raised"
          /\ ~gpresent' /\ gstatus' = 0
          /\ UNCHANGED sessionVars]_vars
  /\ [][(gpc \in {"l139", "l141", "l145"}) =>
          (calib' = calib /\ dead_pixels' = dead_pixels /\ ret' = ret)]_vars
  /\ [][(gpc = "raised") =>
          /\ pc' = "raised"
          /\ err' = gerr
          /\ ret' = None
          /\ calib' = calib
          /\ dead_pixels' = dead_pixels
          /\ gpc' = "idle"
          /\ nReads' <= nReads /\ nStart' <= nStart]_vars
  /\ [][(pc = "raised" /\ err \in TransportErrors) =>
          (pc' = "get_image" /\ gpc' = "idle" /\ nReads' = 0 /\ nStart' = 0)]_vars
  /\ []((pc = "raised" /\ err \in TransportErrors) => (ret = None /\ gpc = "idle"))

\* C13 witness: a bulk read failed in a get_image() that had stored a
\* calibration reference and discarded a normal frame before; the failure
\* has reached get_image()'s caller.
C13_Witness ==
  /\ pc = "raised"
  /\ err = "USBError"
  /\ calib # None
  /\ dropped
  /\ ret = None
  /\ dead_pixels # << >>

\* grab() is at its loop test or past it
LoopStopped ==
  \/ gpc = "l145" /\ ~ENABLED GrabLoopRead
  \/ gpc = "returned"

\* C14 (as claimed): grab() sends exactly one start-transfer write before
\* its first bulk read, keeps reading while more than 512 bytes are
\* missing, and when its read loop stops the accumulated byte count L
\* satisfies 174960 - 512 <= L <= 174960.
C14_OneFrameAtMost ==
  /\ nStart <= 1
  /\ (nReads > 0) => (nStart = 1)
  /\ (gpc = "l145" /\ 174960 - retLen > 512) => ENABLED GrabLoopRead
  /\ LoopStopped => (174960 - 512 <= retLen /\ retLen <= 174960)

\* C14 (amended): grab() sends exactly one start-transfer write before its
\* first bulk read, keeps reading (and does not go on to the status) while
\* more than 512 of the 177840 bytes of a frame are missing, and when its
\* read loop stops the accumulated byte count L satisfies 177840 - 512 <= L
\* <= 177840 - 513 + 13680: the last read may take the buffer past one
\* frame's worth of bytes, and grab() then reports the frame absent.
C14_LoopStopsWithinOneChunk ==
  /\ nStart <= 1
  /\ (nReads > 0) => (nStart = 1)
  /\ (gpc = "l145" /\ 177840 - retLen > 512)
       => (ENABLED GrabLoopRead /\ ~ENABLED GrabFinish)
  /\ LoopStopped => (177840 - 512 <= retLen /\ retLen <= 177840 - 513 + 13680)
  /\ (gpc = "returned" /\ retLen > 177840) => ~gpresent

\* C14 witness: after a short read of 4 bytes and 13 whole chunks the loop
\* has stopped with more than a frame's worth of bytes, and grab() has
\* returned no frame.
C14_Witness ==
  /\ gpc = "returned"
  /\ retLen = 177840 + 4
  /\ nReads = 14
  /\ nStart = 1
  /\ ~gpresent

\* C15: get_image() changes the calibration reference only when it
\* processes a calibration-status (1) frame, and the reference is then that
\* frame's cropped image minus 1600 (in the frame's uint16 samples);
\* processing a normal-status (3) frame, the delivery and dead-pixel
\* correction of an image included, leaves the reference unchanged; nothing
\* after construction changes the dead-pixel list.
C15_FrameConditions ==
  /\ [][(calib' # calib) =>
          /\ pc = "get_image"
          /\ GrabReturned
          /\ lastStatus' = 1
          /\ lastPresent']_vars
  /\ [][(GrabReturned /\ lastStatus' = 1 /\ lastPresent') =>
          /\ calib' # None
          /\ \A p \in Pix : calib'[p] = (calibSrc'[p] - 1600) % 65536
          /\ pc' = "get_image"]_vars
  /\ [][(GrabReturned /\ lastStatus' = 3) => (calib' = calib)]_vars
  /\ [][(pc = "get_image" /\ pc' = "returned") =>
          /\ lastStatus' = 3
          /\ calib' = calib
          /\ dead_pixels' = dead_pixels
          /\ \A p \in Pix \ SeqToSet(dead_pixels) : ret'[p] = diff'[p]]_vars
  /\ [][(pc # "ctor") => (dead_pixels' = dead_pixels)]_vars

\* C15 witness: an image was delivered, one of its pixels replaced by the
\* dead-pixel correction, against a reference that a second calibration
\* frame had overwritten.
C15_Witness ==
  /\ pc = "returned"
  /\ dead_pixels # << >>
  /\ \E p \in SeqToSet(dead_pixels) : ret[p] # diff[p]
  /\ calib # None
  /\ calibSrc # imgSrc
  /\ dropped

\* C16: whenever grab() extracts the status byte at index 4, at least 5
\* bytes have been accumulated, whatever the bulk reads returned (reads of
\* fewer than 5 bytes and of no byte included): grab() never raises an
\* index-out-of-range fault.
C16_StatusByteInRange ==
  /\ (gpc = "l145" /\ ENABLED GrabFinish) => (retLen >= 5 /\ Len(retHead) >= 5)
  /\ (gpc = "l145" /\ retLen < 5) => (ENABLED GrabLoopRead /\ ~ENABLED GrabFinish)
  /\ gerr # "IndexError"
  /\ (gpc = "returned") => (retLen >= 5 /\ gstatus = retHead[5])

\* C16 witness: grab() has returned the status byte after 15 bulk reads,
\* two of which returned 4 bytes or none.
C16_Witness ==
  /\ gpc = "returned"
  /\ nShort = 2
  /\ nReads = 15
  /\ retLen = 177840
  /\ gstatus = retHead[5]
  /\ gstatus = 1

\* C17: as long as every grab() returns, get_image() goes on grabbing until
\* it returns an image, and it returns exactly at the first normal-status
\* (3) frame grabbed while a calibration reference exists, using the
\* reference stored last: so a calibration frame followed later by a normal
\* frame makes it return.
C17_ReturnsAtFirstNormal ==
  /\ [][GrabReturned => (pc' \in {"get_image", "returned"})]_vars
  /\ [][(GrabReturned /\ calib # None /\ lastStatus' = 3) =>
          /\ pc' = "returned"
          /\ ret' # None
          /\ \A p \in Pix : diff'[p] = (imgSrc'[p] - calib[p]) % 65536]_vars
  /\ [][(GrabReturned /\ ~(calib # None /\ lastStatus' = 3)) =>
          (pc' = "get_image")]_vars

\* C18: the calibration reference is absent from construction until the
\* first calibration-status frame is processed, and once it is set no
\* get_image() call, frame of any status or error makes it absent again.
C18_CalibratedForGood ==
  /\ [](pc \in {"ctor", "ctor_raised", "ready"} => calib = None)
  /\ [](calib = None <=> calibSrc = None)
  /\ [][(calib = None /\ calib' # None) =>
          (GrabReturned /\ lastStatus' = 1 /\ lastPresent')]_vars
  /\ [][(GrabReturned /\ lastStatus' = 1 /\ lastPresent') => (calib' # None)]_vars
  /\ [][(calib # None) => (calib' # None)]_vars

\* C18 witness: with a reference stored, a get_image() has ended in an
\* error on a normal-status result without frame, and the reference is
\* still there.
C18_Witness ==
  /\ pc = "raised"
  /\ err = "TypeError"
  /\ lastStatus = 3
  /\ ~lastPresent
  /\ calib # None

\* C19: construction is total over what grab() returns: with no transport
\* failure, whatever the (status, frame present or absent) results of the
\* discovery are (status 4 with the frame absent included), the constructor
\* does not raise, it completes, and it leaves the dead-pixel list defined:
\* a list of coordinates or the empty list.
C19_ConstructionTotal ==
  /\ (pc = "ctor_raised") => (err = "TransportError")
  /\ (pc \notin {"ctor", "ctor_raised"}) =>
       (dead_pixels # Unassigned /\ SeqToSet(dead_pixels) \subseteq Pix)
  /\ (pc = "ctor") => (ENABLED CtorGiveUp \/ ENABLED CtorAttemptFrame)

\* C20 (as claimed): if every bulk read fails or returns at least one byte,
\* grab() returns or raises after a finite number of bulk reads: at most
\* 174448 of them, and exactly 13 when every read returns a whole chunk of
\* 13680 bytes.
C20_AtMost174448Reads ==
  /\ nReads <= 174448
  /\ (gpc = "returned" /\ rate = 13680) => (nReads = 13)

\* C20 (amended): if every bulk read fails or returns at least one byte,
\* grab() returns or raises after a finite number of bulk reads: at most
\* 177328 of them (177840 - 512, reached when every read returns one byte),
\* and exactly 13 when every read returns a whole chunk of 13680 bytes. Every
\* read that does not fail adds at least one byte, a read that fails ends
\* the call, and the loop always has a next step.
C20_AtMost177328Reads ==
  /\ [](nReads <= 177328)
  /\ []((gpc = "returned" /\ rate = 13680) => (nReads = 13))
  /\ []((gpc = "returned" /\ rate = 1) => (nReads = 177328))
  /\ [][(nReads' = nReads + 1) =>
          \/ gpc' = "raised" /\ gerr' = "USBError"
          \/ gpc' = "l145" /\ retLen' >= retLen + 1]_vars
  /\ []((gpc \in {"l141", "l145"}) =>
          (ENABLED GrabFirstReadSlow \/ ENABLED GrabLoopReadSlow \/ ENABLED GrabFinish))
  /\ (gpc = "l139") ~> (gpc \in {"returned", "raised"})

\* C20 witness: grab() has returned after 177328 bulk reads of one byte.
C20_Witness ==
  /\ gpc = "returned"
  /\ rate = 1
  /\ nReads = 177328
  /\ retLen = 177328
  /\ ~gpresent

====
